---- MODULE Spec2Model ----
(***************************************************************************)
(* Recurring-task materialisation and reminder delivery of the todo        *)
(* backend: the connection registry and the reminder dispatch loop         *)
(* (config/scheduler.py), the reminder store accessor                      *)
(* (services/reminder_service.py), the series lifecycle manager and the    *)
(* recurrence calculator (services/recurrence_service.py) and the task     *)
(* endpoints that drive them (api/tasks.py, api/reminders.py).             *)
(*                                                                         *)
(* Execution model: one asyncio event loop.  A coroutine runs without      *)
(* interruption until it suspends; the service methods are synchronous, so *)
(* a request handler's store operation is one atomic step, and the         *)
(* dispatch loop suspends only in asyncio.sleep and when it has to wait    *)
(* for the registry lock.                                                  *)
(***************************************************************************)
EXTENDS Integers, Sequences, FiniteSets, TLC

\* ------------------------------------------------------------------ bounds
MaxTime == 1            \* the clock runs over 0..MaxTime
MaxReminders == 1       \* reminder ids handed out in the delivery specification
MaxStreams == 2         \* SSE stream requests that can be in flight
MaxFaults == 1          \* storage errors and process restarts injected in a run
MaxStoreReminders == 3  \* reminder ids handed out in the store specification
MaxLimitReminders == 4  \* reminder ids handed out in the limit specification
MaxTasks == 3           \* task ids handed out in the series specification
MaxRules == 1           \* rule ids handed out in the series specification
MaxInterval == 2        \* intervals 1..MaxInterval in the calculator specification
MaxEndCount == 2        \* end_count 1..MaxEndCount in the calculator specification
MaxSpawn == 1           \* next instances created in the manager specification
MaxValidated == 3       \* task and rule ids handed out in the validation specification
MaxCycleReminders == 2  \* reminders in the store of the cycle specification

\* ------------------------------------------------------- program constants
MAX_REMINDERS_PER_TASK == 3

\* ---------------------------------------------------------------- helpers
None == <<>>
Some(x) == <<x>>
IsSome(o) == o # <<>>
Val(o) == o[1]

Users == {"u1", "u2"}
Handlers == {<<"stream", i>> : i \in 1..MaxStreams}
Loop == <<"loop", 0>>
Free == <<"free", 0>>

Remove(f, k) == [x \in DOMAIN f \ {k} |-> f[x]]
Put(f, k, v) == [x \in DOMAIN f \cup {k} |-> IF x = k THEN v ELSE f[x]]
Count(f, k) == IF k \in DOMAIN f THEN f[k] ELSE 0
Bump(f, k) == Put(f, k, Count(f, k) + 1)
Without(s, e) == SelectSeq(s, LAMBDA x : x # e)

VARIABLES
    now,          \* wall clock (UTC instant, in ticks)
    tasks,        \* table tasks: id -> row
    rules,        \* table recurrence_rules: id -> row
    reminders,    \* table reminders: id -> row
    nextTask,     \* ids are fresh: the next id each table hands out
    nextRule,
    nextRem,
    connections,  \* ConnectionManager._connections: user -> queue
    lock,         \* holder of ConnectionManager._lock, or Free
    waiters,      \* asyncio.Lock._waiters, first in first out
    streams,      \* per SSE request: where its event_generator stands, and its user
    lpc,          \* where check_due_reminders stands
    due,          \* the list the current cycle's due query returned (reminder ids)
    idx,          \* position of the for loop in that list
    cur,          \* the reminder being processed, the owner of its task and what
                  \* send_reminder returned (nothing before it returns)
    cycleErr,     \* an exception was raised in the current cycle
    faults,       \* storage errors and restarts injected so far
    enq,          \* history: reminder id -> number of times it was put on a queue
    spawned,      \* history: task id -> number of next instances created from it
    resp          \* the response to the last request: operation, arguments, outcome

storeVars == <<tasks, rules, reminders, nextTask, nextRule, nextRem>>
registryVars == <<connections, lock, waiters, streams>>
loopVars == <<lpc, due, idx, cur, cycleErr>>
vars == <<now, tasks, rules, reminders, nextTask, nextRule, nextRem, connections,
          lock, waiters, streams, lpc, due, idx, cur, cycleErr, faults, enq, spawned,
          resp>>

NoResp == [op |-> "none"]

\* ------------------------------------------------- reminder store accessor
\* A remind_at value as a request carries it: wall-clock ticks and an optional
\* UTC offset (None: a naive datetime).
Naive(w) == [wall |-> w, off |-> None]
Aware(w, o) == [wall |-> w, off |-> Some(o)]

\* datetime comparison of remind_at with an aware UTC "now": a naive value is
\* given tzinfo UTC, an aware one is reduced by its offset.
Instant(ra) == IF IsSome(ra.off) THEN ra.wall - Val(ra.off) ELSE ra.wall

GetUserTask(u, t) == IF t \in DOMAIN tasks /\ tasks[t].user = u THEN Some(t) ELSE None

\* select(Reminder).join(Task).where(Task.user_id == u [, Reminder.task_id == t])
ListReminders(u, t) ==
    {r \in DOMAIN reminders :
        /\ reminders[r].task \in DOMAIN tasks
        /\ tasks[reminders[r].task].user = u
        /\ reminders[r].task = t}

\* list_reminders without the task filter
ListUserReminders(u) ==
    {r \in DOMAIN reminders :
        /\ reminders[r].task \in DOMAIN tasks
        /\ tasks[reminders[r].task].user = u}

\* (mutant) get_reminder that forgets the join on the owner
GetReminderAnyOwner(u, r) == IF r \in DOMAIN reminders THEN Some(r) ELSE None

GetReminder(u, r) ==
    IF /\ r \in DOMAIN reminders
       /\ reminders[r].task \in DOMAIN tasks
       /\ tasks[reminders[r].task].user = u
    THEN Some(r) ELSE None

PastOnly(ra) == Instant(ra) < now

PastOrNow(ra) == Instant(ra) <= now

\* (mutant) the limit counted over the reminders not yet sent
LimitReachedUnsent(u, t) ==
    Cardinality({r \in ListReminders(u, t) : ~reminders[r].sent}) >= MAX_REMINDERS_PER_TASK

LimitExceeded(u, t) == Cardinality(ListReminders(u, t)) > MAX_REMINDERS_PER_TASK

LimitReached(u, t) == Cardinality(ListReminders(u, t)) >= MAX_REMINDERS_PER_TASK

CreateOutcome(u, data) ==
    IF ~IsSome(GetUserTask(u, data.task)) THEN "not_found"
    ELSE IF PastOrNow(data.remind_at) THEN "not_future"
    ELSE IF LimitReached(u, data.task) THEN "limit"
    ELSE "created"

NewReminder(data) ==
    [task |-> data.task, remind_at |-> data.remind_at, sent |-> FALSE, sent_at |-> None]

CreateReminder(u, data) ==
    LET out == CreateOutcome(u, data) IN
    /\ reminders' = IF out = "created" THEN Put(reminders, nextRem, NewReminder(data))
                    ELSE reminders
    /\ nextRem' = IF out = "created" THEN nextRem + 1 ELSE nextRem
    /\ UNCHANGED <<now, tasks, rules, nextTask, nextRule, registryVars, loopVars,
                   faults, enq, spawned>>

DeleteReminder(u, r) ==
    LET found == IsSome(GetReminder(u, r)) IN
    /\ reminders' = IF found THEN Remove(reminders, r) ELSE reminders
    /\ UNCHANGED <<now, tasks, rules, nextTask, nextRule, nextRem, registryVars,
                   loopVars, faults, enq, spawned>>

AllOf(t) == {r \in DOMAIN reminders : reminders[r].task = t}

UnsentOf(t) == {r \in DOMAIN reminders : reminders[r].task = t /\ ~reminders[r].sent}

CancelTaskReminders(u, t) ==
    LET owned == IsSome(GetUserTask(u, t))
        gone == IF owned THEN UnsentOf(t) ELSE {} IN
    /\ reminders' = [r \in DOMAIN reminders \ gone |-> reminders[r]]
    /\ UNCHANGED <<now, tasks, rules, nextTask, nextRule, nextRem, registryVars,
                   loopVars, faults, enq, spawned>>

DueSet == {r \in DOMAIN reminders : Instant(reminders[r].remind_at) <= now /\ ~reminders[r].sent}

\* (mutant) the due rows in whatever order the store holds them
DueOrdersUnsorted ==
    {s \in [1..Cardinality(DueSet) -> DueSet] :
        \A i, j \in DOMAIN s : i # j => s[i] # s[j]}

\* ORDER BY remind_at: every arrangement of the due rows that ascends in remind_at
\* (rows with equal remind_at come in an order the store picks).
DueOrders ==
    {s \in [1..Cardinality(DueSet) -> DueSet] :
        /\ \A i, j \in DOMAIN s : i # j => s[i] # s[j]
        /\ \A i, j \in DOMAIN s :
              i < j => Instant(reminders[s[i]].remind_at) <= Instant(reminders[s[j]].remind_at)}

\* (mutant) mark_as_sent that flips the flag instead of setting it
MarkAsSentToggle(r) ==
    IF r \in DOMAIN reminders
    THEN [reminders EXCEPT ![r].sent = ~@, ![r].sent_at = Some(now)]
    ELSE reminders

\* (mutant) mark_as_sent that sets the flag and forgets the timestamp
MarkAsSentNoStamp(r) ==
    IF r \in DOMAIN reminders THEN [reminders EXCEPT ![r].sent = TRUE] ELSE reminders

\* mark_as_sent on the store: the row, if it is still there, gets sent and sent_at.
MarkAsSent(r) ==
    IF r \in DOMAIN reminders
    THEN [reminders EXCEPT ![r].sent = TRUE, ![r].sent_at = Some(now)]
    ELSE reminders

\* ------------------------------------------------------ connection registry
\* Handlers run only while the dispatch loop coroutine is suspended.
LoopSuspended == lpc \in {"sleep", "send_wait"}

\* asyncio.Lock.acquire returns at once iff the lock is free and nobody waits.
LockAvailable == lock = Free /\ waiters = <<>>

IdleStream == [pc |-> "idle", user |-> "-"]

StreamAt(h, pcs) == streams[h].pc \in pcs

\* The body of connect once it holds the lock: with a queue already registered
\* for u it awaits self.disconnect(u), which awaits the lock connect itself
\* holds; otherwise it registers a fresh queue and releases.
ConnectBody(h, u, ws) ==
    IF u \in DOMAIN connections
    THEN /\ lock' = h
         /\ waiters' = Append(ws, h)
         /\ streams' = [streams EXCEPT ![h] = [pc |-> "inner_wait", user |-> u]]
         /\ UNCHANGED connections
    ELSE /\ connections' = Put(connections, u, [owner |-> h, msgs |-> <<>>])
         /\ lock' = Free
         /\ waiters' = ws
         /\ streams' = [streams EXCEPT ![h] = [pc |-> "streaming", user |-> u]]

\* The body of disconnect once it holds the lock.
DisconnectBody(h, u, ws) ==
    /\ connections' = IF u \in DOMAIN connections THEN Remove(connections, u)
                      ELSE connections
    /\ lock' = Free
    /\ waiters' = ws
    /\ streams' = [streams EXCEPT ![h] = IdleStream]

\* GET /reminders/stream: event_generator starts with connect(user_id).
StreamOpen(h, u) ==
    /\ LoopSuspended
    /\ StreamAt(h, {"idle"})
    /\ IF LockAvailable
       THEN ConnectBody(h, u, waiters)
       ELSE /\ waiters' = Append(waiters, h)
            /\ streams' = [streams EXCEPT ![h] = [pc |-> "connect_wait", user |-> u]]
            /\ UNCHANGED <<connections, lock>>
    /\ UNCHANGED <<now, storeVars, loopVars, faults, enq, spawned, resp>>

\* A stream waiting for the lock is woken: first waiter, lock free.
StreamLockGranted(h) ==
    /\ LoopSuspended
    /\ StreamAt(h, {"connect_wait", "disc_wait"})
    /\ lock = Free
    /\ waiters # <<>> /\ Head(waiters) = h
    /\ IF streams[h].pc = "connect_wait"
       THEN ConnectBody(h, streams[h].user, Tail(waiters))
       ELSE DisconnectBody(h, streams[h].user, Tail(waiters))
    /\ UNCHANGED <<now, storeVars, loopVars, faults, enq, spawned, resp>>

\* event_generator takes the next message off its queue (queue.get).
StreamDeliver(h) ==
    /\ LoopSuspended
    /\ StreamAt(h, {"streaming"})
    /\ LET u == streams[h].user IN
       /\ u \in DOMAIN connections
       /\ connections[u].owner = h
       /\ connections[u].msgs # <<>>
       /\ connections' = [connections EXCEPT ![u].msgs = Tail(@)]
    /\ UNCHANGED <<now, storeVars, lock, waiters, streams, loopVars, faults, enq,
                   spawned, resp>>

\* The client goes away: event_generator's finally runs disconnect(user_id).
StreamClose(h) ==
    /\ LoopSuspended
    /\ StreamAt(h, {"streaming"})
    /\ IF LockAvailable
       THEN DisconnectBody(h, streams[h].user, waiters)
       ELSE /\ waiters' = Append(waiters, h)
            /\ streams' = [streams EXCEPT ![h].pc = "disc_wait"]
            /\ UNCHANGED <<connections, lock>>
    /\ UNCHANGED <<now, storeVars, loopVars, faults, enq, spawned, resp>>

\* The request is cancelled while connect waits for the lock: the wait is
\* dropped, and an "async with" that was entered releases the lock on the way out.
StreamAbort(h) ==
    /\ LoopSuspended
    /\ StreamAt(h, {"inner_wait", "connect_wait"})
    /\ waiters' = Without(waiters, h)
    /\ lock' = IF streams[h].pc = "inner_wait" THEN Free ELSE lock
    /\ streams' = [streams EXCEPT ![h] = IdleStream]
    /\ UNCHANGED <<now, storeVars, connections, loopVars, faults, enq, spawned, resp>>

\* send_reminder once it holds the lock: False when the user has no queue, else
\* the message is put on the queue (a queue without maxsize takes every put)
\* and True.
Connected(u) == u \in DOMAIN connections

\* (mutant) the message goes to every registered queue
EnqueueBroadcast(u, r) ==
    /\ connections' = IF Connected(u)
                      THEN [v \in DOMAIN connections |->
                               [connections[v] EXCEPT !.msgs = Append(@, r)]]
                      ELSE connections
    /\ enq' = IF Connected(u) THEN Bump(enq, r) ELSE enq

Enqueue(u, r) ==
    /\ connections' = IF Connected(u)
                      THEN [connections EXCEPT ![u].msgs = Append(@, r)]
                      ELSE connections
    /\ enq' = IF Connected(u) THEN Bump(enq, r) ELSE enq

\* --------------------------------------------------------- dispatch loop
FaultChoices == IF faults < MaxFaults THEN {FALSE, TRUE} ELSE {FALSE}

\* Top of the while loop: the due query of a new cycle (or the query fails and
\* the outer except swallows it).
LoopFetch ==
    /\ lpc = "fetch"
    /\ \E fail \in FaultChoices, order \in DueOrders :
        /\ due' = IF fail THEN <<>>
                  ELSE [i \in DOMAIN order |->
                           [id |-> order[i], task |-> reminders[order[i]].task]]
        /\ cycleErr' = fail
        /\ faults' = IF fail THEN faults + 1 ELSE faults
    /\ idx' = 1
    /\ cur' = None
    /\ lpc' = "item"
    /\ UNCHANGED <<now, storeVars, registryVars, enq, spawned, resp>>

\* One pass of the for loop up to the await: end of the list, an error in the
\* task lookup or in the orphan's mark_as_sent (the per-reminder except logs it
\* and the for loop goes on), an orphaned reminder (marked sent, continue), or
\* the call of send_reminder.
LoopItem ==
    /\ lpc = "item"
    /\ IF idx > Len(due)
       THEN /\ lpc' = "sleep"
            /\ UNCHANGED <<reminders, idx, cur, cycleErr, faults, lock, waiters,
                           connections, enq>>
       ELSE LET r == due[idx] IN
            \E fail \in FaultChoices :
              IF fail
              THEN /\ cycleErr' = TRUE
                   /\ faults' = faults + 1
                   /\ idx' = idx + 1
                   /\ UNCHANGED <<reminders, lpc, cur, lock, waiters, connections, enq>>
              ELSE IF r.task \notin DOMAIN tasks
              THEN /\ reminders' = MarkAsSent(r.id)
                   /\ idx' = idx + 1
                   /\ UNCHANGED <<lpc, cur, cycleErr, faults, lock, waiters,
                                  connections, enq>>
              ELSE /\ cur' = Some([id |-> r.id, user |-> tasks[r.task].user,
                                    sent |-> IF LockAvailable
                                             THEN Some(Connected(tasks[r.task].user))
                                             ELSE None])
                   /\ IF LockAvailable
                      THEN /\ Enqueue(tasks[r.task].user, r.id)
                           /\ lpc' = "mark"
                           /\ UNCHANGED waiters
                      ELSE /\ waiters' = Append(waiters, Loop)
                           /\ lpc' = "send_wait"
                           /\ UNCHANGED <<connections, enq>>
                   /\ UNCHANGED <<reminders, idx, cycleErr, faults, lock>>
    /\ UNCHANGED <<now, tasks, rules, nextTask, nextRule, nextRem, streams, due,
                   spawned, resp>>

\* send_reminder gets the lock it waited for.
LoopSendGranted ==
    /\ lpc = "send_wait"
    /\ lock = Free
    /\ waiters # <<>> /\ Head(waiters) = Loop
    /\ waiters' = Tail(waiters)
    /\ Enqueue(Val(cur).user, Val(cur).id)
    /\ cur' = Some([Val(cur) EXCEPT !.sent = Some(Connected(Val(cur).user))])
    /\ lpc' = "mark"
    /\ UNCHANGED <<now, storeVars, lock, streams, due, idx, cycleErr, faults,
                   spawned, resp>>

\* (mutant) an error in mark_as_sent ends the cycle where it stands
LoopMarkAbort ==
    /\ lpc = "mark"
    /\ \E fail \in FaultChoices :
        /\ reminders' = IF fail THEN reminders ELSE MarkAsSent(Val(cur).id)
        /\ cycleErr' = (cycleErr \/ fail)
        /\ faults' = IF fail THEN faults + 1 ELSE faults
        /\ idx' = IF fail THEN idx ELSE idx + 1
        /\ lpc' = IF fail THEN "sleep" ELSE "item"
    /\ cur' = None
    /\ UNCHANGED <<now, tasks, rules, nextTask, nextRule, nextRem, registryVars, due,
                   enq, spawned, resp>>

\* mark_as_sent after the send, whatever send returned; a storage error is
\* caught by the per-reminder except and the for loop goes on.
LoopMark ==
    /\ lpc = "mark"
    /\ \E fail \in FaultChoices :
        /\ reminders' = IF fail THEN reminders ELSE MarkAsSent(Val(cur).id)
        /\ cycleErr' = (cycleErr \/ fail)
        /\ faults' = IF fail THEN faults + 1 ELSE faults
    /\ idx' = idx + 1
    /\ cur' = None
    /\ lpc' = "item"
    /\ UNCHANGED <<now, tasks, rules, nextTask, nextRule, nextRem, registryVars, due,
                   enq, spawned, resp>>

\* asyncio.sleep(10) returns.
LoopWake ==
    /\ lpc = "sleep"
    /\ lpc' = "fetch"
    /\ UNCHANGED <<now, storeVars, registryVars, due, idx, cur, cycleErr, faults, enq,
                   spawned, resp>>

\* ------------------------------------------------------------ environment
\* Time passes while the loop sleeps or waits.
Tick ==
    /\ LoopSuspended
    /\ now < MaxTime
    /\ now' = now + 1
    /\ UNCHANGED <<storeVars, registryVars, loopVars, faults, enq, spawned, resp>>

InitRegistry ==
    /\ connections = <<>>
    /\ lock = Free
    /\ waiters = <<>>
    /\ streams = [h \in Handlers |-> IdleStream]

InitLoop ==
    /\ lpc = "fetch"
    /\ due = <<>>
    /\ idx = 1
    /\ cur = None
    /\ cycleErr = FALSE

\* The process dies and is started again: the registry and the loop are built
\* anew (lifespan starts check_due_reminders), the store keeps its rows.
Restart ==
    /\ faults < MaxFaults
    /\ faults' = faults + 1
    /\ connections' = <<>>
    /\ lock' = Free
    /\ waiters' = <<>>
    /\ streams' = [h \in Handlers |-> IdleStream]
    /\ lpc' = "fetch"
    /\ due' = <<>>
    /\ idx' = 1
    /\ cur' = None
    /\ cycleErr' = FALSE
    /\ UNCHANGED <<now, storeVars, enq, spawned, resp>>

\* ---------------------------------------------------- recurrence calculator
\* A datetime is [y, m, d, tod]: a civil date and the time of day.
IsLeap(y) == (y % 4 = 0 /\ y % 100 # 0) \/ y % 400 = 0

DaysInMonth(y, m) ==
    IF m = 2 THEN (IF IsLeap(y) THEN 29 ELSE 28)
    ELSE IF m \in {4, 6, 9, 11} THEN 30 ELSE 31

\* timedelta(days=n), n >= 0
RECURSIVE AddDays(_, _)
AddDays(dt, n) ==
    IF dt.d + n <= DaysInMonth(dt.y, dt.m) THEN [dt EXCEPT !.d = dt.d + n]
    ELSE AddDays([dt EXCEPT !.y = IF dt.m = 12 THEN dt.y + 1 ELSE dt.y,
                            !.m = IF dt.m = 12 THEN 1 ELSE dt.m + 1,
                            !.d = 1],
                 n - (DaysInMonth(dt.y, dt.m) - dt.d + 1))

\* (mutant) the days a short month lacks run over into the month after it
AddMonthsRollOver(dt, k) ==
    LET total == dt.y * 12 + (dt.m - 1) + k
        ny == total \div 12
        nm == (total % 12) + 1
        dim == DaysInMonth(ny, nm)
    IN IF dt.d <= dim THEN [dt EXCEPT !.y = ny, !.m = nm]
       ELSE [dt EXCEPT !.y = (total + 1) \div 12, !.m = ((total + 1) % 12) + 1,
                       !.d = dt.d - dim]

\* relativedelta(months=k): the month moves, the day is cut to the month's length.
AddMonths(dt, k) ==
    LET total == dt.y * 12 + (dt.m - 1) + k
        ny == total \div 12
        nm == (total % 12) + 1
        dim == DaysInMonth(ny, nm)
    IN [dt EXCEPT !.y = ny, !.m = nm, !.d = IF dt.d > dim THEN dim ELSE dt.d]

\* date comparison a <= b
DateLE(a, b) ==
    \/ a.y < b.y
    \/ a.y = b.y /\ a.m < b.m
    \/ a.y = b.y /\ a.m = b.m /\ a.d <= b.d

Epoch == [y |-> 2026, m |-> 1, d |-> 28, tod |-> 0]

\* datetime.utcnow(): one tick of the clock is one day.
UtcNow == AddDays(Epoch, now)

\* (mutant) the custom frequency left unimplemented: the date comes back as is
AddIntervalCustomUnset(base, frequency, interval) ==
    CASE frequency = "daily" -> AddDays(base, interval)
      [] frequency = "weekly" -> AddDays(base, 7 * interval)
      [] frequency = "monthly" -> AddMonths(base, interval)
      [] frequency = "yearly" -> AddMonths(base, 12 * interval)
      [] frequency = "custom" -> base
      [] OTHER -> AddDays(base, interval)

\* (mutant) weeks taken as days
AddIntervalWeekAsDay(base, frequency, interval) ==
    CASE frequency = "daily" -> AddDays(base, interval)
      [] frequency = "weekly" -> AddDays(base, interval)
      [] frequency = "monthly" -> AddMonths(base, interval)
      [] frequency = "yearly" -> AddMonths(base, 12 * interval)
      [] frequency = "custom" -> AddDays(base, interval)
      [] OTHER -> AddDays(base, interval)

AddInterval(base, frequency, interval) ==
    CASE frequency = "daily" -> AddDays(base, interval)
      [] frequency = "weekly" -> AddDays(base, 7 * interval)
      [] frequency = "monthly" -> AddMonths(base, interval)
      [] frequency = "yearly" -> AddMonths(base, 12 * interval)
      [] frequency = "custom" -> AddDays(base, interval)
      [] OTHER -> AddDays(base, interval)

\* (mutant) the count test off by one
ShouldContinueInclusive(rule, current_due, completed_count) ==
    CASE rule.end_type = "never" -> TRUE
      [] rule.end_type = "count" ->
            IF IsSome(rule.end_count) THEN completed_count <= Val(rule.end_count) ELSE TRUE
      [] rule.end_type = "date" ->
            IF IsSome(rule.end_date) THEN DateLE(current_due, Val(rule.end_date)) ELSE TRUE
      [] OTHER -> TRUE

ShouldContinue(rule, current_due, completed_count) ==
    CASE rule.end_type = "never" -> TRUE
      [] rule.end_type = "count" ->
            IF IsSome(rule.end_count) THEN completed_count < Val(rule.end_count) ELSE TRUE
      [] rule.end_type = "date" ->
            IF IsSome(rule.end_date) THEN DateLE(current_due, Val(rule.end_date)) ELSE TRUE
      [] OTHER -> TRUE

\* datetime ends with year 9999: an addition that passes it raises
\* (OverflowError from timedelta, ValueError from relativedelta) and
\* calculate_next_occurrence returns nothing.
RaisesOutOfRange(rule, current_due, completed_count) ==
    LET anchor == IF IsSome(current_due) THEN Val(current_due) ELSE UtcNow IN
    /\ ShouldContinue(rule, anchor, completed_count)
    /\ AddInterval(anchor, rule.frequency, rule.interval).y > 9999

\* (mutant) the advanced date is not compared with end_date
CalculateNextOccurrenceNoEndCheck(rule, current_due, completed_count) ==
    LET anchor == IF IsSome(current_due) THEN Val(current_due) ELSE UtcNow IN
    IF ~ShouldContinue(rule, anchor, completed_count) THEN None
    ELSE Some(AddInterval(anchor, rule.frequency, rule.interval))

\* the value returned when the call does not raise
CalculateNextOccurrence(rule, current_due, completed_count) ==
    LET anchor == IF IsSome(current_due) THEN Val(current_due) ELSE UtcNow IN
    IF ~ShouldContinue(rule, anchor, completed_count) THEN None
    ELSE LET next_due == AddInterval(anchor, rule.frequency, rule.interval) IN
         IF /\ rule.end_type = "date"
            /\ IsSome(rule.end_date)
            /\ ~DateLE(next_due, Val(rule.end_date))
         THEN None
         ELSE Some(next_due)

\* ------------------------------------------------- series lifecycle manager
GetRule(u, rid) == IF rid \in DOMAIN rules /\ rules[rid].user = u THEN Some(rid) ELSE None

\* get_completed_count over a tasks table tt
CompletedCount(tt, u, t) ==
    IF ~IsSome(tt[t].rule) THEN 0
    ELSE Cardinality({x \in DOMAIN tt :
            tt[x].rule = tt[t].rule /\ tt[x].user = u /\ tt[x].is_completed})

\* the count create_next_instance hands to the calculator
HandedCount(tt, u, t) == CompletedCount(tt, u, t) + 1

\* (mutant) a next instance that does not carry the description over
NextInstanceNoDescription(u, t, src, next_due) ==
    [user |-> u, title |-> src.title, description |-> None,
     is_completed |-> FALSE, priority |-> src.priority, due |-> Some(next_due),
     rule |-> src.rule, parent |-> Some(t)]

NextInstance(u, t, src, next_due) ==
    [user |-> u, title |-> src.title, description |-> src.description,
     is_completed |-> FALSE, priority |-> src.priority, due |-> Some(next_due),
     rule |-> src.rule, parent |-> Some(t)]

\* (mutant) delete_future_instances that forgets the is_completed filter
WholeSeries(tt, u, t) ==
    IF ~IsSome(tt[t].rule) THEN {}
    ELSE {x \in DOMAIN tt : tt[x].rule = tt[t].rule /\ tt[x].user = u}

\* the pending instances of t's series owned by u
FutureInstances(tt, u, t) ==
    IF ~IsSome(tt[t].rule) THEN {}
    ELSE {x \in DOMAIN tt : tt[x].rule = tt[t].rule /\ tt[x].user = u /\ ~tt[x].is_completed}

\* (mutant) update_future_instances that forgets the is_completed filter
UpdateFutureAll(tt, u, t, title, description, priority) ==
    [x \in DOMAIN tt |->
        IF IsSome(tt[t].rule) /\ tt[x].rule = tt[t].rule /\ tt[x].user = u
        THEN [tt[x] EXCEPT !.title = IF IsSome(title) THEN Val(title) ELSE @,
                           !.description = IF IsSome(description) THEN description ELSE @,
                           !.priority = IF IsSome(priority) THEN Val(priority) ELSE @]
        ELSE tt[x]]

\* update_future_instances over a tasks table tt: the fields that are given
\* (not None) are set on every pending instance of the series.
UpdateFutureInstances(tt, u, t, title, description, priority) ==
    [x \in DOMAIN tt |->
        IF x \in FutureInstances(tt, u, t)
        THEN [tt[x] EXCEPT !.title = IF IsSome(title) THEN Val(title) ELSE @,
                           !.description = IF IsSome(description) THEN description ELSE @,
                           !.priority = IF IsSome(priority) THEN Val(priority) ELSE @]
        ELSE tt[x]]

\* Rows leave the tasks table: their reminders go with them (ON DELETE CASCADE)
\* and tasks that named them as parent get NULL (ON DELETE SET NULL).
DropTasks(tt, gone) ==
    [x \in DOMAIN tt \ gone |->
        IF IsSome(tt[x].parent) /\ Val(tt[x].parent) \in gone
        THEN [tt[x] EXCEPT !.parent = None] ELSE tt[x]]

DropRemindersOf(gone) ==
    [r \in {x \in DOMAIN reminders : reminders[x].task \notin gone} |-> reminders[r]]

\* A rule row leaves: tasks that referenced it get NULL (ON DELETE SET NULL).
ClearRule(tt, rid) ==
    [x \in DOMAIN tt |-> IF tt[x].rule = Some(rid) THEN [tt[x] EXCEPT !.rule = None] ELSE tt[x]]

\* delete_future_instances(task) called by user u
DeleteFutureInstances(u, t) ==
    LET gone == FutureInstances(tasks, u, t) IN
    /\ tasks' = DropTasks(tasks, gone)
    /\ reminders' = DropRemindersOf(gone)
    /\ UNCHANGED <<now, rules, nextTask, nextRule, nextRem, registryVars, loopVars,
                   faults, enq, spawned>>

\* ------------------------------------------------------------ task endpoints
NewRule(u, c) ==
    [user |-> u, frequency |-> c.frequency, interval |-> c.interval,
     end_type |-> c.end_type, end_count |-> c.end_count, end_date |-> c.end_date]

\* RecurrenceRuleBase's field constraints, enforced where the schema is validated
RuleCreateRejects(c) ==
    IF c.interval < 1 THEN TRUE
    ELSE IF c.interval > 365 THEN TRUE
    ELSE IF ~IsSome(c.end_count) THEN FALSE
    ELSE IF Val(c.end_count) < 1 THEN TRUE
    ELSE Val(c.end_count) > 999

\* RecurrenceRule is declared with table=True: the table class is built from
\* the values given without running the field constraints.
TableModelRejects(c) == FALSE

\* POST /tasks: the rule row first when a recurrence is given, then the task.
\* RecurrenceRuleCreate(...) raises on a bad field before anything is added.
CreateTask(u, data) ==
    LET rid == IF IsSome(data.recurrence) THEN Some(nextRule) ELSE None IN
    IF IsSome(data.recurrence) /\ RuleCreateRejects(Val(data.recurrence))
    THEN UNCHANGED <<now, storeVars, registryVars, loopVars, faults, enq, spawned>>
    ELSE
    /\ rules' = IF IsSome(data.recurrence)
                THEN Put(rules, nextRule, NewRule(u, Val(data.recurrence)))
                ELSE rules
    /\ nextRule' = IF IsSome(data.recurrence) THEN nextRule + 1 ELSE nextRule
    /\ tasks' = Put(tasks, nextTask,
                    [user |-> u, title |-> data.title, description |-> data.description,
                     is_completed |-> data.is_completed, priority |-> data.priority,
                     due |-> data.due, rule |-> rid, parent |-> None])
    /\ nextTask' = nextTask + 1
    /\ UNCHANGED <<now, reminders, nextRem, registryVars, loopVars, faults, enq, spawned>>

\* POST /tasks/{id}/complete
CompleteTask(u, t) ==
    IF ~IsSome(GetUserTask(u, t))
    THEN UNCHANGED <<now, storeVars, registryVars, loopVars, faults, enq, spawned>>
    ELSE LET done == [tasks EXCEPT ![t].is_completed = TRUE]
             rule == IF IsSome(done[t].rule) THEN GetRule(u, Val(done[t].rule)) ELSE None
             count == HandedCount(done, u, t)
             next_due == IF /\ IsSome(rule)
                            /\ ~RaisesOutOfRange(rules[Val(rule)], done[t].due, count)
                         THEN CalculateNextOccurrence(rules[Val(rule)], done[t].due, count)
                         ELSE None
         IN /\ tasks' = IF IsSome(next_due)
                        THEN Put(done, nextTask, NextInstance(u, t, done[t], Val(next_due)))
                        ELSE done
            /\ nextTask' = IF IsSome(next_due) THEN nextTask + 1 ELSE nextTask
            /\ spawned' = IF IsSome(next_due) THEN Bump(spawned, t) ELSE spawned
            /\ UNCHANGED <<now, rules, reminders, nextRule, nextRem, registryVars,
                           loopVars, faults, enq>>

\* PATCH /tasks/{id}: the provided fields are set; with update_series the
\* provided title, description and priority go to every pending instance of
\* the series as well.
ApplyUpdate(row, upd) ==
    [row EXCEPT !.title = IF IsSome(upd.title) THEN Val(upd.title) ELSE @,
                !.description = IF IsSome(upd.description) THEN upd.description ELSE @,
                !.priority = IF IsSome(upd.priority) THEN Val(upd.priority) ELSE @,
                !.is_completed = IF IsSome(upd.is_completed) THEN Val(upd.is_completed) ELSE @]

UpdateTask(u, t, upd) ==
    IF ~IsSome(GetUserTask(u, t))
    THEN UNCHANGED <<now, storeVars, registryVars, loopVars, faults, enq, spawned>>
    ELSE LET own == [tasks EXCEPT ![t] = ApplyUpdate(@, upd)]
         IN /\ tasks' = IF upd.update_series /\ IsSome(own[t].rule)
                        THEN UpdateFutureInstances(own, u, t, upd.title, upd.description,
                                                   upd.priority)
                        ELSE own
            /\ UNCHANGED <<now, rules, reminders, nextTask, nextRule, nextRem,
                           registryVars, loopVars, faults, enq, spawned>>

\* The chat executor's COMPLETE action: the task of the user is looked up, a
\* task already completed is reported as such, otherwise the flag is set and
\* the row saved.
ExecuteComplete(u, t) ==
    /\ tasks' = IF IsSome(GetUserTask(u, t)) THEN [tasks EXCEPT ![t].is_completed = TRUE]
                ELSE tasks
    /\ UNCHANGED <<now, rules, reminders, nextTask, nextRule, nextRem, registryVars,
                   loopVars, faults, enq, spawned>>

\* DELETE /tasks/{id}?delete_series=...
DeleteTask(u, t, delete_series) ==
    IF ~IsSome(GetUserTask(u, t))
    THEN UNCHANGED <<now, storeVars, registryVars, loopVars, faults, enq, spawned>>
    ELSE LET rid == tasks[t].rule
             series == delete_series /\ IsSome(rid)
             gone == IF series THEN FutureInstances(tasks, u, t) ELSE {t}
             left == DropTasks(tasks, gone)
             remaining == {x \in DOMAIN left : left[x].rule = rid}
             drop_rule == /\ series
                          /\ Cardinality(remaining) <= 1
                          /\ IsSome(GetRule(u, Val(rid)))
         IN /\ tasks' = IF drop_rule THEN ClearRule(left, Val(rid)) ELSE left
            /\ rules' = IF drop_rule THEN Remove(rules, Val(rid)) ELSE rules
            /\ reminders' = DropRemindersOf(gone)
            /\ UNCHANGED <<now, nextTask, nextRule, nextRem, registryVars, loopVars,
                           faults, enq, spawned>>

\* ------------------------------------------------ delivery specification
\* The registry, the dispatch loop and the reminder requests over two tasks,
\* one per user.
PlainTask(u) ==
    [user |-> u, title |-> "a", description |-> None, is_completed |-> FALSE,
     priority |-> 3, due |-> None, rule |-> None, parent |-> None]

Init ==
    /\ now = 0
    /\ tasks = <<PlainTask("u1")>>
    /\ rules = <<>>
    /\ reminders = <<>>
    /\ nextTask = 2
    /\ nextRule = 1
    /\ nextRem = 1
    /\ InitRegistry
    /\ InitLoop
    /\ faults = 0
    /\ enq = <<>>
    /\ spawned = <<>>
    /\ resp = NoResp

ReqCreateReminder ==
    /\ LoopSuspended
    /\ nextRem <= MaxReminders
    /\ \E t \in DOMAIN tasks, w \in 1..MaxTime :
          CreateReminder(tasks[t].user, [task |-> t, remind_at |-> Naive(w)])
    /\ UNCHANGED resp

ReqDeleteReminder ==
    /\ LoopSuspended
    /\ \E r \in DOMAIN reminders : DeleteReminder(tasks[reminders[r].task].user, r)
    /\ UNCHANGED resp

ReqDeleteTask ==
    /\ LoopSuspended
    /\ \E t \in DOMAIN tasks : DeleteTask(tasks[t].user, t, FALSE)
    /\ UNCHANGED resp

\* The users that open streams here: the owner of the task.
StreamUsers == {"u1"}

\* A new stream request takes the first idle slot.
FirstIdle(h) == StreamAt(h, {"idle"}) /\ \A g \in Handlers : g[2] < h[2] => ~StreamAt(g, {"idle"})

Streams ==
    \E h \in Handlers :
        \/ \E u \in StreamUsers : FirstIdle(h) /\ StreamOpen(h, u)
        \/ StreamLockGranted(h)
        \/ StreamDeliver(h)
        \/ StreamClose(h)
        \/ StreamAbort(h)

LoopStep == LoopFetch \/ LoopItem \/ LoopSendGranted \/ LoopMark \/ LoopWake

Next ==
    \/ Tick
    \/ LoopStep
    \/ Streams
    \/ ReqCreateReminder
    \/ ReqDeleteReminder
    \/ ReqDeleteTask
    \/ Restart

Spec == Init /\ [][Next]_vars

\* The event loop runs every coroutine that is ready: the dispatch loop takes
\* its next step whenever it can, and a stream woken for the lock takes it.
\* Nothing obliges a client to open, close or abandon a stream.
LockHandover == \E h \in Handlers : StreamLockGranted(h)

FairSpec == Spec /\ WF_vars(LoopStep) /\ WF_vars(LockHandover)

\* ------------------------------------------------------ claims, delivery
\* C1: connect(u) called while a channel is registered for u returns; it never
\* waits for the registry lock it holds itself (a wait nothing in connect ends).
C1_ConnectNeverWaitsOnItself ==
    \A h \in Handlers : ~(streams[h].pc = "inner_wait" /\ lock = h)

\* C2: over any run of the dispatch loop, with storage errors in mark_as_sent
\* and restarts, the notification of a reminder is put on a queue at most once.
C2_EnqueuedAtMostOnce == \A r \in DOMAIN enq : enq[r] <= 1

\* C3: with the dispatch loop scheduled fairly, every reminder that is due and
\* unsent is eventually marked sent or deleted, whatever the streams do.
C3_DueEventuallySent ==
    \A r \in 1..MaxReminders :
        (r \in DueSet) ~> (r \notin DOMAIN reminders \/ reminders[r].sent)

\* C4: at the end of a dispatch cycle without storage error, every reminder the
\* cycle's due query returned that still exists has sent = true and sent_at set.
C4_CycleMarksAllDue ==
    (lpc = "sleep" /\ ~cycleErr) =>
        \A i \in DOMAIN due :
            due[i].id \in DOMAIN reminders =>
                reminders[due[i].id].sent /\ IsSome(reminders[due[i].id].sent_at)

\* C4 witness: a cycle ended without error after marking a reminder whose owner
\* was offline (nothing was ever put on a queue for it).
C4_Witness ==
    /\ lpc = "sleep" /\ ~cycleErr
    /\ \E i \in DOMAIN due :
          /\ due[i].id \in DOMAIN reminders
          /\ reminders[due[i].id].sent
          /\ Count(enq, due[i].id) = 0

\* ------------------------------------------------ store specification
\* The reminder store accessor and task completion, called in any order by two
\* users over one task each; the dispatch loop is not running and the clock
\* stands still.
InitStore ==
    /\ now = 0
    /\ tasks = <<PlainTask("u1"), PlainTask("u2")>>
    /\ rules = <<>>
    /\ reminders = <<>>
    /\ nextTask = 3
    /\ nextRule = 1
    /\ nextRem = 1
    /\ InitRegistry
    /\ InitLoop
    /\ faults = 0
    /\ enq = <<>>
    /\ spawned = <<>>
    /\ resp = NoResp

\* Task ids a request may name: every id handed out, and one that was not.
TaskIds == 1..nextTask
ReminderIds == 1..nextRem

\* remind_at values a request may carry (the clock stands at 0 here): naive, and
\* aware one tick east of UTC; before now, at now and after now.
RemindAtInputs == {Naive(0), Naive(1), Aware(0, 1), Aware(1, 1), Aware(2, 1)}

CreateInputs == {[task |-> t, remind_at |-> ra] : t \in TaskIds, ra \in RemindAtInputs}

StoreCreate(u, data) ==
    /\ CreateOutcome(u, data) = "created" => nextRem <= MaxStoreReminders
    /\ CreateReminder(u, data)
    /\ resp' = [op |-> "create_reminder", arg |-> data.task, out |-> CreateOutcome(u, data)]

StoreDelete(u, r) ==
    /\ DeleteReminder(u, r)
    /\ resp' = [op |-> "delete_reminder", out |-> IsSome(GetReminder(u, r))]

StoreCancel(u, t) ==
    /\ CancelTaskReminders(u, t)
    /\ resp' = [op |-> "cancel_task_reminders", arg |-> t,
                out |-> IF IsSome(GetUserTask(u, t)) THEN Some(Cardinality(UnsentOf(t)))
                        ELSE None]

\* mark_as_sent called on its own (it is a static method of the service)
StoreMark(r) ==
    /\ reminders' = MarkAsSent(r)
    /\ resp' = [op |-> "mark_as_sent", out |-> "ok"]
    /\ UNCHANGED <<now, tasks, rules, nextTask, nextRule, nextRem, registryVars,
                   loopVars, faults, enq, spawned>>

StoreComplete(u, t) ==
    /\ CompleteTask(u, t)
    /\ resp' = [op |-> "complete_task", arg |-> t,
                out |-> IF IsSome(GetUserTask(u, t)) THEN "ok" ELSE "not_found"]

AnyStoreCreate == \E u \in Users, data \in CreateInputs : StoreCreate(u, data)
AnyStoreDelete == \E u \in Users, r \in ReminderIds : StoreDelete(u, r)
AnyStoreCancel == \E u \in Users, t \in TaskIds : StoreCancel(u, t)
AnyStoreMark == \E r \in ReminderIds : StoreMark(r)
AnyStoreComplete == \E u \in Users, t \in TaskIds : StoreComplete(u, t)

NextStore ==
    \/ AnyStoreCreate
    \/ AnyStoreDelete
    \/ AnyStoreCancel
    \/ AnyStoreMark
    \/ AnyStoreComplete

SpecStore == InitStore /\ [][NextStore]_vars

\* ------------------------------------------------ limit specification
\* Many reminders on few tasks: the store requests with one remind_at value.
LimitCreate(u, t) ==
    /\ nextRem <= MaxLimitReminders
    /\ CreateReminder(u, [task |-> t, remind_at |-> Naive(1)])
    /\ resp' = [op |-> "create_reminder", arg |-> t,
                out |-> CreateOutcome(u, [task |-> t, remind_at |-> Naive(1)])]

AnyLimitCreate == \E u \in Users, t \in TaskIds : LimitCreate(u, t)

NextLimit ==
    \/ AnyLimitCreate
    \/ AnyStoreDelete
    \/ AnyStoreCancel
    \/ AnyStoreMark

SpecLimit == InitStore /\ [][NextLimit]_vars

\* ------------------------------------------------ series specification
\* The task endpoints over recurring and plain tasks; the store starts empty.
InitSeries ==
    /\ now = 0
    /\ tasks = <<>>
    /\ rules = <<>>
    /\ reminders = <<>>
    /\ nextTask = 1
    /\ nextRule = 1
    /\ nextRem = 1
    /\ InitRegistry
    /\ InitLoop
    /\ faults = 0
    /\ enq = <<>>
    /\ spawned = <<>>
    /\ resp = NoResp

RuleConfig(f, i, et, ec, ed) ==
    [frequency |-> f, interval |-> i, end_type |-> et, end_count |-> ec, end_date |-> ed]

\* recurrences a task-creation request may carry
RuleInputs ==
    {RuleConfig("daily", 1, "never", None, None),
     RuleConfig("daily", 1, "count", Some(2), None)}

TaskInputs ==
    {[title |-> "a", description |-> None, is_completed |-> FALSE, priority |-> 3,
      due |-> None, recurrence |-> rc] :
        rc \in {None} \cup {Some(x) : x \in RuleInputs}}

UpdateInputs ==
    {[title |-> None, description |-> None, priority |-> None,
      is_completed |-> Some(FALSE), update_series |-> us] : us \in BOOLEAN}

\* the user who creates tasks in the series specification
SeriesOwners == {"u1"}

SeriesCreate(u, data) ==
    /\ nextTask <= MaxTasks
    /\ IsSome(data.recurrence) => nextRule <= MaxRules
    /\ CreateTask(u, data)
    /\ resp' = [op |-> "create_task", arg |-> nextTask, out |-> "created"]

\* The response of complete_task, and beside it the count that
\* create_next_instance handed to the calculator.
SeriesComplete(u, t) ==
    /\ nextTask <= MaxTasks
    /\ CompleteTask(u, t)
    /\ resp' = IF ~IsSome(GetUserTask(u, t))
               THEN [op |-> "complete_task", arg |-> t, out |-> "not_found"]
               ELSE LET done == [tasks EXCEPT ![t].is_completed = TRUE]
                        ruled == /\ IsSome(done[t].rule)
                                 /\ IsSome(GetRule(u, Val(done[t].rule)))
                    IN [op |-> "complete_task", arg |-> t, out |-> "ok",
                        count |-> IF ruled THEN Some(HandedCount(done, u, t)) ELSE None,
                        next |-> nextTask' # nextTask]

SeriesUpdate(u, t, upd) ==
    /\ UpdateTask(u, t, upd)
    /\ resp' = [op |-> "update_task", arg |-> t,
                out |-> IF IsSome(GetUserTask(u, t)) THEN "ok" ELSE "not_found"]

SeriesDelete(u, t, ds) ==
    /\ DeleteTask(u, t, ds)
    /\ resp' = [op |-> "delete_task", arg |-> t,
                out |-> IF IsSome(GetUserTask(u, t)) THEN "ok" ELSE "not_found"]

AnySeriesCreate == \E u \in SeriesOwners, data \in TaskInputs : SeriesCreate(u, data)
AnySeriesComplete == \E u \in Users, t \in TaskIds : SeriesComplete(u, t)
AnySeriesUpdate == \E u \in Users, t \in TaskIds, upd \in UpdateInputs : SeriesUpdate(u, t, upd)
AnySeriesDelete == \E u \in Users, t \in TaskIds, ds \in BOOLEAN : SeriesDelete(u, t, ds)

NextSeries ==
    \/ AnySeriesCreate
    \/ AnySeriesComplete
    \/ AnySeriesUpdate
    \/ AnySeriesDelete

SpecSeries == InitSeries /\ [][NextSeries]_vars

\* -------------------------------------------------------------- claims
\* C5: after POST /tasks/{id}/complete has answered for a task, no reminder
\* of that task with sent = FALSE is left in the store.
C5_CompletionCancelsUnsent ==
    (resp.op = "complete_task" /\ resp.out = "ok") => UnsentOf(resp.arg) = {}

\* C6: over the whole run, at most one next instance is ever created with
\* parent_task_id equal to a given task.
C6_OneNextInstancePerTask ==
    \A t \in DOMAIN spawned : spawned[t] <= 1

CompletedInSeries(t) ==
    {x \in DOMAIN tasks : /\ tasks[x].user = tasks[t].user
                          /\ tasks[x].rule = tasks[t].rule
                          /\ tasks[x].is_completed}

\* C7: the count handed to the calculator on completing a recurring task is
\* the number of completed instances of its series, the one just completed
\* counted once; so under an end_count of N the completion of the k-th
\* instance creates a next instance exactly when k < N.
C7_CompletedCountedOnce ==
    (resp.op = "complete_task" /\ resp.out = "ok" /\ IsSome(resp.count)) =>
        LET k == Cardinality(CompletedInSeries(resp.arg))
            rule == rules[Val(tasks[resp.arg].rule)]
        IN /\ Val(resp.count) = k
           /\ rule.end_type = "count" => (resp.next <=> k < Val(rule.end_count))

RemindersOfTask(t) == {r \in DOMAIN reminders : reminders[r].task = t}

\* C8: whatever sequence of create, delete, cancel and mark_as_sent calls the
\* request handlers make, no task ever has more than three reminders.
C8_AtMostThreeReminders ==
    \A t \in DOMAIN tasks : Cardinality(RemindersOfTask(t)) <= 3

\* a fourth reminder was asked for a task that holds three, one of them sent
C8_Witness ==
    /\ resp.op = "create_reminder"
    /\ resp.out = "limit"
    /\ Cardinality(RemindersOfTask(resp.arg)) = 3
    /\ \E r \in RemindersOfTask(resp.arg) : reminders[r].sent

Owned(u, t) == t \in DOMAIN tasks /\ tasks[t].user = u

\* remind_at as a UTC instant: a value without offset is taken as UTC
StrictlyFuture(ra) == (IF ra.off = None THEN ra.wall ELSE ra.wall - ra.off[1]) > now

\* C9: create_reminder succeeds exactly when the task exists and belongs to
\* the caller, remind_at is strictly later than the current UTC time and the
\* task has fewer than three reminders; otherwise it fails with an error
\* whose condition is violated and the persisted reminders are unchanged.
C9_CreateSucceedsIff ==
    [][resp'.op = "create_reminder" =>
        \A u \in Users, ra \in RemindAtInputs :
            LET data == [task |-> resp'.arg, remind_at |-> ra]
                owned == Owned(u, data.task)
                future == StrictlyFuture(data.remind_at)
                room == Cardinality(RemindersOfTask(data.task)) < 3
                ok == owned /\ future /\ room
            IN StoreCreate(u, data) =>
               /\ (resp'.out = "created") <=> ok
               /\ ok => /\ DOMAIN reminders' = DOMAIN reminders \cup {nextRem}
                        /\ nextRem \notin DOMAIN reminders
                        /\ reminders'[nextRem].task = data.task
                        /\ reminders'[nextRem].remind_at = data.remind_at
                        /\ ~reminders'[nextRem].sent
                        /\ \A r \in DOMAIN reminders : reminders'[r] = reminders[r]
               /\ ~ok => /\ reminders' = reminders
                         /\ resp'.out \in {"not_found", "not_future", "limit"}
                         /\ resp'.out = "not_found" => ~owned
                         /\ resp'.out = "not_future" => ~future
                         /\ resp'.out = "limit" => ~room]_vars

\* a request was refused for its time alone: the task is the caller's own
\* and has room for another reminder
C9_Witness ==
    /\ resp.op = "create_reminder"
    /\ resp.out = "not_future"
    /\ resp.arg \in DOMAIN tasks
    /\ Cardinality(RemindersOfTask(resp.arg)) < 3

\* C10: cancel_task_reminders on a task of the caller deletes exactly the
\* reminders of that task with sent = FALSE and returns their number; sent
\* reminders and reminders of other tasks stay as they were.
C10_CancelDeletesExactlyUnsent ==
    [][resp'.op = "cancel_task_reminders" =>
        \A u \in Users :
            LET t == resp'.arg
                gone == {r \in RemindersOfTask(t) : reminders[r].sent = FALSE}
            IN (Owned(u, t) /\ StoreCancel(u, t)) =>
               /\ DOMAIN reminders' = DOMAIN reminders \ gone
               /\ \A r \in DOMAIN reminders' : reminders'[r] = reminders[r]
               /\ resp'.out = Some(Cardinality(gone))]_vars

\* a cancellation removed something and left behind both a sent reminder of
\* the task and a reminder of another task
C10_Witness ==
    /\ resp.op = "cancel_task_reminders"
    /\ IsSome(resp.out)
    /\ Val(resp.out) >= 1
    /\ \E r \in RemindersOfTask(resp.arg) : reminders[r].sent
    /\ \E r \in DOMAIN reminders : reminders[r].task # resp.arg

\* ------------------------------------------------ marking specification
\* The reminder store while the clock runs: mark_as_sent is called on its
\* own, at any time, on any id.
MarkCreate(u, data) ==
    /\ nextRem <= MaxReminders
    /\ CreateReminder(u, data)
    /\ resp' = [op |-> "create_reminder", arg |-> data.task, out |-> CreateOutcome(u, data)]

\* datetime.now(timezone.utc) advances between two calls
ClockTick ==
    /\ now < MaxTime
    /\ now' = now + 1
    /\ resp' = [op |-> "tick"]
    /\ UNCHANGED <<storeVars, registryVars, loopVars, faults, enq, spawned>>

AnyMarkCreate == \E u \in Users, data \in CreateInputs : MarkCreate(u, data)

NextMark ==
    \/ AnyMarkCreate
    \/ AnyStoreDelete
    \/ AnyStoreCancel
    \/ AnyStoreMark
    \/ ClockTick

SpecMark == InitStore /\ [][NextMark]_vars

\* C11: mark_as_sent applied to a reminder it has already marked leaves sent
\* and sent_at as the first application set them; applied to an id that does
\* not exist it changes nothing.
C11_MarkAsSentIdempotent ==
    [][resp'.op = "mark_as_sent" =>
        \A r \in ReminderIds :
            StoreMark(r) =>
                IF r \in DOMAIN reminders
                THEN reminders[r].sent =>
                        /\ reminders'[r].sent = reminders[r].sent
                        /\ reminders'[r].sent_at = reminders[r].sent_at
                ELSE reminders' = reminders]_vars

\* C12: every reminder has sent_at set exactly when sent is true, and no
\* step takes a reminder's sent from true back to false.
C12_SentStampedAndMonotonic ==
    [][/\ \A r \in DOMAIN reminders : reminders[r].sent <=> IsSome(reminders[r].sent_at)
       /\ \A r \in DOMAIN reminders' : reminders'[r].sent <=> IsSome(reminders'[r].sent_at)
       /\ \A r \in DOMAIN reminders \cap DOMAIN reminders' :
             reminders[r].sent => reminders'[r].sent]_vars

\* a reminder that was marked after the clock had moved
C12_Witness ==
    /\ resp.op = "mark_as_sent"
    /\ \E r \in DOMAIN reminders :
          /\ reminders[r].sent
          /\ IsSome(reminders[r].sent_at)
          /\ Val(reminders[r].sent_at) > 0

\* ------------------------------------------------ shutdown specification
\* lifespan's shutdown: reminder_task.cancel(). CancelledError is raised at
\* the await the loop is suspended in; it is no Exception, so neither except
\* clause catches it and check_due_reminders ends. A wait for the registry
\* lock is withdrawn (Lock.acquire removes its waiter).
Shutdown ==
    /\ LoopSuspended
    /\ lpc' = "cancelled"
    /\ waiters' = IF lpc = "send_wait" THEN Without(waiters, Loop) ELSE waiters
    /\ UNCHANGED <<now, storeVars, connections, lock, streams, due, idx, cur, cycleErr,
                   faults, enq, spawned, resp>>

NextShutdown ==
    \/ Tick
    \/ LoopStep
    \/ Streams
    \/ ReqCreateReminder
    \/ ReqDeleteReminder
    \/ ReqDeleteTask
    \/ Shutdown

SpecShutdown == Init /\ [][NextShutdown]_vars

\* C13: once cancelled the dispatch loop starts no further cycle, and a
\* reminder whose processing had begun when the cancellation arrived has been
\* marked sent (or is gone) when the loop has ended.
C13_CancelFinishesCurrentItem ==
    lpc = "cancelled" =>
        \/ cur = None
        \/ Val(cur).id \notin DOMAIN reminders
        \/ reminders[Val(cur).id].sent

\* the reminders whose task belongs to somebody other than u
ForeignReminders(u) == {r \in DOMAIN reminders : ~Owned(u, reminders[r].task)}

\* C14: a user who does not own a reminder's task neither sees it (get_reminder
\* absent, list_reminders without it) nor changes it: delete_reminder answers
\* false, cancel_task_reminders and create_reminder on that task answer
\* not-found, and the reminder store is the same after the call.
C14_ForeignRemindersUntouchable ==
    [][\A u \in Users :
        /\ \A r \in ForeignReminders(u) :
              /\ GetReminder(u, r) = None
              /\ r \notin ListUserReminders(u)
              /\ r \notin ListReminders(u, reminders[r].task)
        /\ resp'.op = "delete_reminder" =>
              \A r \in ForeignReminders(u) :
                  StoreDelete(u, r) => resp'.out = FALSE /\ reminders' = reminders
        /\ resp'.op = "cancel_task_reminders" =>
              \A r \in ForeignReminders(u) :
                  StoreCancel(u, reminders[r].task) =>
                      resp'.out = None /\ reminders' = reminders
        /\ resp'.op = "create_reminder" =>
              \A r \in ForeignReminders(u) :
                  LimitCreate(u, reminders[r].task) =>
                      resp'.out = "not_found" /\ reminders' = reminders]_vars

\* create_reminder was refused as not-found on a task that exists and holds a
\* reminder: the caller was not its owner
C14_Witness ==
    /\ resp.op = "create_reminder"
    /\ resp.out = "not_found"
    /\ resp.arg \in DOMAIN tasks
    /\ RemindersOfTask(resp.arg) # {}

\* ------------------------------------------------ manager specification
\* The series lifecycle manager called directly, over tasks that differ in
\* title, description and priority: two series of u1 and a task of u2
\* without recurrence.
ManagerRules ==
    <<NewRule("u1", RuleConfig("daily", 1, "never", None, None)),
      NewRule("u1", RuleConfig("weekly", 1, "count", Some(3), None))>>

ManagerTask(u, title, description, priority, rule) ==
    [user |-> u, title |-> title, description |-> description, is_completed |-> FALSE,
     priority |-> priority, due |-> None, rule |-> rule, parent |-> None]

ManagerTasks ==
    <<ManagerTask("u1", "a", Some("d"), 1, Some(1)),
      ManagerTask("u1", "b", None, 2, Some(2)),
      ManagerTask("u2", "c", None, 3, None)>>

InitManager ==
    /\ now = 0
    /\ tasks = ManagerTasks
    /\ rules = ManagerRules
    /\ reminders = <<>>
    /\ nextTask = Len(ManagerTasks) + 1
    /\ nextRule = Len(ManagerRules) + 1
    /\ nextRem = 1
    /\ InitRegistry
    /\ InitLoop
    /\ faults = 0
    /\ enq = <<>>
    /\ spawned = <<>>
    /\ resp = NoResp

\* POST /tasks/{id}/complete by the owner
ManagerComplete(t) ==
    /\ t \in DOMAIN tasks
    /\ CompleteTask(tasks[t].user, t)
    /\ nextTask' # nextTask => nextTask <= Len(ManagerTasks) + MaxSpawn
    /\ resp' = [op |-> "complete_task", arg |-> t,
                out |-> IF nextTask' # nextTask THEN Some(nextTask) ELSE None]

\* PATCH /tasks/{id} with is_completed = false by the owner
ManagerReopen(t) ==
    /\ t \in DOMAIN tasks
    /\ tasks[t].is_completed
    /\ UpdateTask(tasks[t].user, t,
                  [title |-> None, description |-> None, priority |-> None,
                   is_completed |-> Some(FALSE), update_series |-> FALSE])
    /\ resp' = [op |-> "update_task", out |-> None]

ManagerDeleteFuture(u, t) ==
    /\ t \in DOMAIN tasks
    /\ DeleteFutureInstances(u, t)
    /\ resp' = [op |-> "delete_future_instances",
                out |-> Some(Cardinality(FutureInstances(tasks, u, t)))]

\* title, description and priority as update_future_instances may receive them
FieldInputs ==
    {[title |-> Some("x"), description |-> None, priority |-> None],
     [title |-> None, description |-> Some("e"), priority |-> Some(5)]}

ManagerUpdateFuture(u, t, f) ==
    /\ t \in DOMAIN tasks
    /\ tasks' = IF IsSome(tasks[t].rule)
                THEN UpdateFutureInstances(tasks, u, t, f.title, f.description, f.priority)
                ELSE tasks
    /\ resp' = [op |-> "update_future_instances",
                out |-> Some(Cardinality(FutureInstances(tasks, u, t)))]
    /\ UNCHANGED <<now, rules, reminders, nextTask, nextRule, nextRem, registryVars,
                   loopVars, faults, enq, spawned>>

AnyManagerComplete == \E t \in TaskIds : ManagerComplete(t)
AnyManagerReopen == \E t \in TaskIds : ManagerReopen(t)
AnyManagerDeleteFuture == \E u \in Users, t \in TaskIds : ManagerDeleteFuture(u, t)
AnyManagerUpdateFuture ==
    \E u \in Users, t \in TaskIds, f \in FieldInputs : ManagerUpdateFuture(u, t, f)

NextManager ==
    \/ AnyManagerComplete
    \/ AnyManagerReopen
    \/ AnyManagerDeleteFuture
    \/ AnyManagerUpdateFuture

SpecManager == InitManager /\ [][NextManager]_vars

\* C15: create_next_instance, called for a task that was just completed: when
\* the calculator yields a next occurrence exactly one task is added, not
\* completed, due at that occurrence, with the rule, the title, the
\* description and the priority of the task and the task as parent, and every
\* existing task stays as it was; when the series has ended nothing is added.
C15_NextInstanceCopiesTask ==
    [][resp'.op = "complete_task" =>
        \A t \in DOMAIN tasks :
            (ManagerComplete(t) /\ IsSome(tasks[t].rule)) =>
                LET done == [tasks EXCEPT ![t].is_completed = TRUE]
                    src == done[t]
                    occ == CalculateNextOccurrence(rules[Val(src.rule)], src.due,
                                                   HandedCount(done, src.user, t))
                    new == DOMAIN tasks' \ DOMAIN tasks
                IN /\ \A x \in DOMAIN tasks : tasks'[x] = done[x]
                   /\ IF IsSome(occ)
                      THEN /\ Cardinality(new) = 1
                           /\ resp'.out \in {Some(n) : n \in new}
                           /\ \A n \in new :
                                 /\ tasks'[n].is_completed = FALSE
                                 /\ tasks'[n].due = occ
                                 /\ tasks'[n].rule = src.rule
                                 /\ tasks'[n].parent = Some(t)
                                 /\ tasks'[n].user = src.user
                                 /\ tasks'[n].title = src.title
                                 /\ tasks'[n].description = src.description
                                 /\ tasks'[n].priority = src.priority
                      ELSE new = {} /\ resp'.out = None]_vars

\* a completion created the next instance of a task that has a description
C15_Witness ==
    /\ resp.op = "complete_task"
    /\ IsSome(resp.out)
    /\ Val(resp.out) \in DOMAIN tasks
    /\ tasks[Val(resp.out)].parent = Some(resp.arg)
    /\ IsSome(tasks[Val(resp.out)].description)

\* the series of a completion that ended: nothing was created
C15_EndedWitness ==
    /\ resp.op = "complete_task"
    /\ resp.out = None
    /\ resp.arg \in DOMAIN tasks
    /\ IsSome(tasks[resp.arg].rule)

\* the tasks of u that carry the rule of t, pending or all
SeriesOf(u, t) == {x \in DOMAIN tasks : tasks[x].rule = tasks[t].rule /\ tasks[x].user = u}

\* C16: delete_future_instances(task) by user u deletes exactly the pending
\* tasks of u that share task's rule and returns their number; every other
\* task is unchanged; a second call right after would find nothing to delete;
\* for a task without a rule it returns 0 and changes nothing.
C16_DeleteFutureExactlyPending ==
    [][resp'.op = "delete_future_instances" =>
        \A u \in Users, t \in DOMAIN tasks :
            ManagerDeleteFuture(u, t) =>
                LET pending == IF tasks[t].rule = None THEN {}
                               ELSE {x \in SeriesOf(u, t) : tasks[x].is_completed = FALSE}
                IN /\ DOMAIN tasks' = DOMAIN tasks \ pending
                   /\ \A x \in DOMAIN tasks' : tasks'[x] = tasks[x]
                   /\ resp'.out = Some(Cardinality(pending))
                   /\ tasks[t].rule # None =>
                         \A x \in DOMAIN tasks' :
                            ~(/\ tasks'[x].rule = tasks[t].rule
                              /\ tasks'[x].user = u
                              /\ tasks'[x].is_completed = FALSE)
                   /\ tasks[t].rule = None => tasks' = tasks /\ resp'.out = Some(0)]_vars

\* C17: update_future_instances(task, title?, description?, priority?) by
\* user u sets, on every pending task of u that shares task's rule, exactly
\* the fields that were given, and returns the number of those tasks; fields
\* not given, completed instances, other series and other users' tasks are
\* unchanged.
C17_UpdateFutureExactlyGiven ==
    [][resp'.op = "update_future_instances" =>
        \A u \in Users, t \in DOMAIN tasks, f \in FieldInputs :
            ManagerUpdateFuture(u, t, f) =>
                LET pending == IF tasks[t].rule = None THEN {}
                               ELSE {x \in SeriesOf(u, t) : tasks[x].is_completed = FALSE}
                IN /\ DOMAIN tasks' = DOMAIN tasks
                   /\ resp'.out = Some(Cardinality(pending))
                   /\ \A x \in DOMAIN tasks \ pending : tasks'[x] = tasks[x]
                   /\ \A x \in pending :
                         /\ f.title # None => tasks'[x].title = f.title[1]
                         /\ f.title = None => tasks'[x].title = tasks[x].title
                         /\ f.description # None => tasks'[x].description = f.description
                         /\ f.description = None =>
                               tasks'[x].description = tasks[x].description
                         /\ f.priority # None => tasks'[x].priority = f.priority[1]
                         /\ f.priority = None => tasks'[x].priority = tasks[x].priority
                         /\ [tasks'[x] EXCEPT !.title = tasks[x].title,
                                              !.description = tasks[x].description,
                                              !.priority = tasks[x].priority] = tasks[x]]_vars

\* an update gave a pending instance the new title and left the completed
\* task of the same series with the old one
C17_Witness ==
    /\ resp.op = "update_future_instances"
    /\ \E x, y \in DOMAIN tasks :
          /\ IsSome(tasks[x].rule)
          /\ tasks[x].rule = tasks[y].rule
          /\ tasks[x].is_completed /\ tasks[x].title # "x"
          /\ ~tasks[y].is_completed /\ tasks[y].title = "x"

\* C18: a recurrence rule is deleted only when no task references it: in a
\* step that removes a rule, no task that is still there afterwards carried
\* the rule's id when the rule went.
C18_RuleDeletedOnlyUnreferenced ==
    [][\A rid \in DOMAIN rules \ DOMAIN rules' :
          \A x \in DOMAIN tasks \cap DOMAIN tasks' : tasks[x].rule # Some(rid)]_vars

\* ------------------------------------------------ calculator specification
\* calculate_next_occurrence called on its own (it is a static method): the
\* call is drawn at the start, the step returns or raises.
Frequencies == {"daily", "weekly", "monthly", "yearly", "custom"}

EndInputs ==
    {[end_type |-> "never", end_count |-> None, end_date |-> None]}
    \cup {[end_type |-> "count", end_count |-> c, end_date |-> None] :
            c \in {None} \cup {Some(n) : n \in 1..MaxEndCount}}
    \cup {[end_type |-> "date", end_count |-> None, end_date |-> d] :
            d \in {None, Some([y |-> 2026, m |-> 2, d |-> 28]),
                   Some([y |-> 2027, m |-> 1, d |-> 31]),
                   Some([y |-> 9999, m |-> 12, d |-> 31])}}

CalcRules ==
    {NewRule("u1", RuleConfig(f, i, e.end_type, e.end_count, e.end_date)) :
        f \in Frequencies, i \in 1..MaxInterval, e \in EndInputs}

DateTime(y, m, d) == [y |-> y, m |-> m, d |-> d, tod |-> 10]

\* anchors: none (utcnow), the end of a month, an end date, a leap day, the
\* end of a year and the last days datetime can hold
CalcAnchors ==
    {None, Some(DateTime(2026, 1, 31)), Some(DateTime(2026, 2, 28)),
     Some(DateTime(2024, 2, 29)),
     Some(DateTime(2026, 12, 31)), Some(DateTime(9999, 12, 1)),
     Some(DateTime(9999, 12, 31))}

CalcCounts == 0..(MaxEndCount + 1)

InitCalc ==
    /\ now = 0
    /\ tasks = <<>>
    /\ rules = <<>>
    /\ reminders = <<>>
    /\ nextTask = 1
    /\ nextRule = 1
    /\ nextRem = 1
    /\ InitRegistry
    /\ InitLoop
    /\ faults = 0
    /\ enq = <<>>
    /\ spawned = <<>>
    /\ resp \in {[op |-> "call", rule |-> r, current_due |-> a, completed_count |-> c] :
                    r \in CalcRules, a \in CalcAnchors, c \in CalcCounts}

Calculate ==
    /\ resp.op = "call"
    /\ resp' = [op |-> "return", rule |-> resp.rule, current_due |-> resp.current_due,
                completed_count |-> resp.completed_count,
                raised |-> RaisesOutOfRange(resp.rule, resp.current_due,
                                            resp.completed_count),
                out |-> IF RaisesOutOfRange(resp.rule, resp.current_due,
                                            resp.completed_count)
                        THEN None
                        ELSE CalculateNextOccurrence(resp.rule, resp.current_due,
                                                     resp.completed_count)]
    /\ UNCHANGED <<now, storeVars, registryVars, loopVars, faults, enq, spawned>>

NextCalc == Calculate

SpecCalc == InitCalc /\ [][NextCalc]_vars

\* the anchor of a call: the due date given, else the current time
AnchorOf(r) == IF r.current_due = None THEN UtcNow ELSE r.current_due[1]

\* datetime comparison a < b
Later(b, a) ==
    \/ b.y > a.y
    \/ b.y = a.y /\ b.m > a.m
    \/ b.y = a.y /\ b.m = a.m /\ b.d > a.d
    \/ b.y = a.y /\ b.m = a.m /\ b.d = a.d /\ b.tod > a.tod

\* the anchor moved on by the rule's interval is a date datetime can hold
Representable(r) == AddInterval(AnchorOf(r), r.rule.frequency, r.rule.interval).y <= 9999

\* C19 (as claimed): for every rule with end_type = never, every frequency,
\* interval, anchor and completed_count, calculate_next_occurrence returns a
\* timestamp strictly later than the anchor.
C19_NeverAlwaysLater ==
    (resp.op = "return" /\ resp.rule.end_type = "never") =>
        /\ ~resp.raised
        /\ IsSome(resp.out)
        /\ Later(Val(resp.out), AnchorOf(resp))

\* C19 (amended): for every rule with end_type = never, every frequency,
\* interval and completed_count, and every anchor that the interval does not
\* carry past year 9999, calculate_next_occurrence returns a timestamp
\* strictly later than the anchor.
C19_NeverLaterWhenRepresentable ==
    (resp.op = "return" /\ resp.rule.end_type = "never" /\ Representable(resp)) =>
        /\ ~resp.raised
        /\ IsSome(resp.out)
        /\ Later(Val(resp.out), AnchorOf(resp))

\* a never-ending monthly rule took the last day of January to February
C19_Witness ==
    /\ resp.op = "return"
    /\ resp.rule.end_type = "never"
    /\ resp.rule.frequency = "monthly"
    /\ resp.current_due = Some(DateTime(2026, 1, 31))
    /\ IsSome(resp.out)
    /\ Val(resp.out).m = 2

\* the series of a count rule has ended at the call's completed_count
CountReached(r) ==
    /\ r.rule.end_count # None
    /\ r.completed_count >= r.rule.end_count[1]

\* C20 (as claimed): for every rule with end_type = count and end_count = N,
\* calculate_next_occurrence returns absent for every completed_count >= N and
\* a timestamp for every completed_count < N; with end_count absent a
\* timestamp is always returned.
C20_CountBoundary ==
    (resp.op = "return" /\ resp.rule.end_type = "count") =>
        /\ ~resp.raised
        /\ CountReached(resp) => resp.out = None
        /\ ~CountReached(resp) => IsSome(resp.out)

\* C20 (amended): as claimed, the timestamp being returned for every anchor
\* that the interval does not carry past year 9999.
C20_CountBoundaryWhenRepresentable ==
    (resp.op = "return" /\ resp.rule.end_type = "count") =>
        /\ CountReached(resp) => ~resp.raised /\ resp.out = None
        /\ (~CountReached(resp) /\ Representable(resp)) =>
              ~resp.raised /\ IsSome(resp.out)

\* a count rule called with completed_count equal to its end_count
C20_Witness ==
    /\ resp.op = "return"
    /\ resp.rule.end_type = "count"
    /\ resp.rule.end_count = Some(resp.completed_count)
    /\ resp.out = None
    /\ ~resp.raised

\* a call on a rule that ends on a date
DateRule(r) == r.rule.end_type = "date" /\ r.rule.end_date # None

\* the anchor of a call moved on by the rule's interval
Advanced(r) == AddInterval(AnchorOf(r), r.rule.frequency, r.rule.interval)

AnchorWithinEnd(r) == DateLE(AnchorOf(r), r.rule.end_date[1])

AdvancedWithinEnd(r) == DateLE(Advanced(r), r.rule.end_date[1])

\* C21 (as claimed): for every rule with end_type = date and end_date present,
\* calculate_next_occurrence returns the advanced timestamp iff the anchor's
\* date is <= end_date and the advanced timestamp's date is <= end_date, and
\* absent otherwise.
C21_DateBoundary ==
    (resp.op = "return" /\ DateRule(resp)) =>
        /\ ~resp.raised
        /\ resp.out = IF AnchorWithinEnd(resp) /\ AdvancedWithinEnd(resp)
                      THEN Some(Advanced(resp))
                      ELSE None

\* C21 (amended): as claimed, for every anchor that is past end_date or that
\* the interval does not carry past year 9999: an advanced date equal to
\* end_date is returned, an advanced date after end_date gives absent.
C21_DateBoundaryWhenRepresentable ==
    (resp.op = "return" /\ DateRule(resp)
        /\ (AnchorWithinEnd(resp) => Representable(resp))) =>
        /\ ~resp.raised
        /\ resp.out = IF AnchorWithinEnd(resp) /\ AdvancedWithinEnd(resp)
                      THEN Some(Advanced(resp))
                      ELSE None

\* the step from the end date itself lands after it and returns absent,
\* while the anchor was still within the end date
C21_Witness ==
    /\ resp.op = "return"
    /\ DateRule(resp)
    /\ resp.current_due = Some(DateTime(2026, 2, 28))
    /\ resp.rule.end_date = Some([y |-> 2026, m |-> 2, d |-> 28])
    /\ resp.out = None
    /\ ~resp.raised

\* months counted from year 0
MonthIndex(dt) == dt.y * 12 + (dt.m - 1)

\* the months a monthly or yearly rule moves by
MonthsOf(rule) == IF rule.frequency = "yearly" THEN 12 * rule.interval ELSE rule.interval

\* C22: for frequency monthly with interval k (yearly: 12k months) the result
\* lies in the calendar month exactly k months after the anchor's month, its
\* day of month being the smaller of the anchor's day and the last day of
\* that month; it never falls in the month after.
C22_MonthClamped ==
    (resp.op = "return" /\ resp.rule.frequency \in {"monthly", "yearly"}
        /\ IsSome(resp.out)) =>
        LET a == AnchorOf(resp)
            o == Val(resp.out)
            last == DaysInMonth(o.y, o.m)
        IN /\ MonthIndex(o) = MonthIndex(a) + MonthsOf(resp.rule)
           /\ o.d = IF a.d < last THEN a.d ELSE last

\* a yearly rule took the leap day to the 28th of February of a common year
C22_Witness ==
    /\ resp.op = "return"
    /\ resp.rule.frequency = "yearly"
    /\ resp.rule.interval = 1
    /\ resp.current_due = Some(DateTime(2024, 2, 29))
    /\ resp.out = Some(DateTime(2025, 2, 28))

\* the days of a common year before each month
DaysBeforeMonth == <<0, 31, 59, 90, 120, 151, 181, 212, 243, 273, 304, 334>>

\* the number of a date's day, counted from 0001-01-01 as day 1
DayNumber(dt) ==
    LET py == dt.y - 1 IN
    365 * py + (py \div 4) - (py \div 100) + (py \div 400)
        + DaysBeforeMonth[dt.m] + (IF dt.m > 2 /\ IsLeap(dt.y) THEN 1 ELSE 0) + dt.d

\* the days a daily, weekly or custom rule moves by
DaysOf(rule) == IF rule.frequency = "weekly" THEN 7 * rule.interval ELSE rule.interval

\* C23: for frequency daily the result is the anchor plus exactly interval
\* days, for weekly the anchor plus exactly 7 x interval days, for custom the
\* same as daily; in every frequency the result has the anchor's time of day.
C23_DaysExactTimeKept ==
    (resp.op = "return" /\ IsSome(resp.out)) =>
        /\ Val(resp.out).tod = AnchorOf(resp).tod
        /\ resp.rule.frequency \in {"daily", "weekly", "custom"} =>
              DayNumber(Val(resp.out)) = DayNumber(AnchorOf(resp)) + DaysOf(resp.rule)

\* a weekly rule of interval 2 took the last day of the year fourteen days on
C23_Witness ==
    /\ resp.op = "return"
    /\ resp.rule.frequency = "weekly"
    /\ resp.rule.interval = 2
    /\ resp.current_due = Some(DateTime(2026, 12, 31))
    /\ resp.out = Some(DateTime(2027, 1, 14))

\* ---------------------------------------------- validation specification
\* The three ways a recurrence rule is built: the RecurrenceRule table class,
\* the RecurrenceRuleCreate schema handed to create_rule, and the task-creation
\* request. Intervals are drawn from 0 upwards.
IntervalInputs == 0..MaxInterval

ValidateConfigs == {RuleConfig("daily", i, "never", None, None) : i \in IntervalInputs}

\* RecurrenceRule(user_id=..., interval=i, ...): the object alone, nothing stored
ValidateModel(c) ==
    /\ resp' = [op |-> "RecurrenceRule", interval |-> c.interval,
                raised |-> TableModelRejects(c)]
    /\ UNCHANGED <<now, storeVars, registryVars, loopVars, faults, enq, spawned>>

\* create_rule(RecurrenceRuleCreate(interval=i, ...))
ValidateSchema(u, c) ==
    /\ nextRule <= MaxValidated
    /\ resp' = [op |-> "RecurrenceRuleCreate", interval |-> c.interval,
                raised |-> RuleCreateRejects(c)]
    /\ rules' = IF RuleCreateRejects(c) THEN rules ELSE Put(rules, nextRule, NewRule(u, c))
    /\ nextRule' = IF RuleCreateRejects(c) THEN nextRule ELSE nextRule + 1
    /\ UNCHANGED <<now, tasks, reminders, nextTask, nextRem, registryVars, loopVars,
                   faults, enq, spawned>>

\* POST /tasks with recurrence.interval = i
ValidateRequest(u, c) ==
    /\ nextTask <= MaxValidated
    /\ nextRule <= MaxValidated
    /\ CreateTask(u, [title |-> "a", description |-> None, is_completed |-> FALSE,
                      priority |-> 3, due |-> None, recurrence |-> Some(c)])
    /\ resp' = [op |-> "create_task", interval |-> c.interval,
                raised |-> RuleCreateRejects(c)]

AnyValidateModel == \E c \in ValidateConfigs : ValidateModel(c)
AnyValidateSchema == \E u \in SeriesOwners, c \in ValidateConfigs : ValidateSchema(u, c)
AnyValidateRequest == \E u \in SeriesOwners, c \in ValidateConfigs : ValidateRequest(u, c)

NextValidate ==
    \/ AnyValidateModel
    \/ AnyValidateSchema
    \/ AnyValidateRequest

SpecValidate == InitSeries /\ [][NextValidate]_vars

\* C24: every persisted recurrence rule has interval >= 1, and building or
\* creating a rule with interval < 1 (through the RecurrenceRule model,
\* RecurrenceRuleCreate or the task-creation request) is rejected with no rule
\* and no task persisted.
C24_IntervalAtLeastOne ==
    /\ [](\A rid \in DOMAIN rules : rules[rid].interval >= 1)
    /\ [][(resp'.op \in {"RecurrenceRule", "RecurrenceRuleCreate", "create_task"}
             /\ resp'.interval < 1) =>
            /\ resp'.raised
            /\ rules' = rules
            /\ tasks' = tasks]_vars

\* --------------------------------------------------- cycle specification
\* The dispatch loop over a store that already holds unsent reminders of two
\* users' tasks, all of them due, with one client whose stream opens and
\* closes for either user, and reminders and tasks deleted between cycles.
\* With a single stream nothing ever waits for the registry lock.
CycleReminders ==
    {NewReminder([task |-> t, remind_at |-> Naive(w)]) : t \in 1..2, w \in 0..MaxTime}

InitCycle ==
    /\ now = MaxTime
    /\ tasks = <<PlainTask("u1"), PlainTask("u2")>>
    /\ rules = <<>>
    /\ reminders \in [1..MaxCycleReminders -> CycleReminders]
    /\ nextTask = 3
    /\ nextRule = 1
    /\ nextRem = MaxCycleReminders + 1
    /\ InitRegistry
    /\ InitLoop
    /\ faults = 0
    /\ enq = <<>>
    /\ spawned = <<>>
    /\ resp = NoResp

CycleStream == <<"stream", 1>>

CycleOpen == \E u \in Users : StreamOpen(CycleStream, u)

CycleDeliver == StreamDeliver(CycleStream)

CycleClose == StreamClose(CycleStream)

NextCycle ==
    \/ LoopFetch
    \/ LoopItem
    \/ LoopMark
    \/ LoopWake
    \/ CycleOpen
    \/ CycleDeliver
    \/ CycleClose
    \/ ReqDeleteReminder
    \/ ReqDeleteTask

SpecCycle == InitCycle /\ [][NextCycle]_vars

\* the reminder the for loop stands at
AtItem == due[idx].id

InitSend ==
    /\ now = 0
    /\ tasks = <<PlainTask("u1"), PlainTask("u2")>>
    /\ rules = <<>>
    /\ reminders = [r \in 1..2 |-> NewReminder([task |-> r, remind_at |-> Naive(0)])]
    /\ nextTask = 3
    /\ nextRule = 1
    /\ nextRem = 3
    /\ InitRegistry
    /\ InitLoop
    /\ faults = 0
    /\ enq = <<>>
    /\ spawned = <<>>
    /\ resp = NoResp

SendStreams ==
    \E h \in Handlers :
        \/ \E u \in Users : FirstIdle(h) /\ StreamOpen(h, u)
        \/ StreamLockGranted(h)
        \/ StreamDeliver(h)
        \/ StreamClose(h)
        \/ StreamAbort(h)

NextSend ==
    \/ LoopStep
    \/ SendStreams

SpecSend == InitSend /\ [][NextSend]_vars

\* a step in which send_reminder returns to the loop
SendReturns == lpc # "mark" /\ lpc' = "mark"

\* C26: send_reminder(u, ...) returns false and changes no channel and no
\* registration when no channel is registered for u; when one is registered
\* it appends exactly one message to u's channel, returns true and leaves every
\* other user's channel and the set of registrations unchanged; the call
\* always returns to its caller.
C26_SendFrame ==
    /\ [][SendReturns =>
            LET u == Val(cur').user
                r == Val(cur').id
            IN IF u \notin DOMAIN connections
               THEN /\ Val(cur').sent = Some(FALSE)
                    /\ connections' = connections
               ELSE /\ Val(cur').sent = Some(TRUE)
                    /\ DOMAIN connections' = DOMAIN connections
                    /\ connections'[u] = [connections[u] EXCEPT !.msgs = Append(@, r)]
                    /\ \A v \in DOMAIN connections \ {u} :
                          connections'[v] = connections[v]]_vars
    /\ [](lpc = "mark" => IsSome(Val(cur).sent))

\* send_reminder returned true for u1's reminder while u2 is registered with
\* nothing on its channel
C26_Witness ==
    /\ lpc = "mark"
    /\ Val(cur).user = "u1"
    /\ Val(cur).sent = Some(TRUE)
    /\ "u2" \in DOMAIN connections
    /\ connections["u2"].msgs = <<>>
    /\ connections["u1"].msgs # <<>>

\* the ids of a due list, as a set
DueIds(d) == {d[i].id : i \in DOMAIN d}

\* C27: the due query returns exactly the reminders with remind_at <= now and
\* sent = false, sorted by remind_at, and the cycle walks that list from the
\* front one reminder at a time, sending only the one it stands at: no
\* reminder is sent before one with an earlier remind_at of the same query.
C27_DueOrderAscending ==
    /\ [][(lpc = "fetch" /\ lpc' = "item" /\ ~cycleErr') =>
            /\ DueIds(due') = DueSet
            /\ Len(due') = Cardinality(DueSet)
            /\ \A i, j \in DOMAIN due' :
                  i < j => Instant(reminders[due'[i].id].remind_at)
                             <= Instant(reminders[due'[j].id].remind_at)]_vars
    /\ [][(lpc # "fetch" /\ idx' # idx) => idx' = idx + 1 /\ due' = due]_vars
    /\ [][SendReturns => Val(cur').id = due[idx].id /\ idx' = idx]_vars
    /\ [][enq' # enq => SendReturns /\ enq' = Bump(enq, due[idx].id)]_vars

\* a cycle sent the reminder created second before the one created first,
\* its remind_at being the earlier
C27_Witness ==
    /\ lpc = "sleep"
    /\ ~cycleErr
    /\ Len(due) = 2
    /\ due[1].id = 2 /\ due[2].id = 1
    /\ DueIds(due) \subseteq DOMAIN reminders
    /\ Instant(reminders[2].remind_at) < Instant(reminders[1].remind_at)
    /\ reminders[1].sent /\ reminders[2].sent
    /\ DueIds(due) \subseteq DOMAIN enq

\* C28: a task-delete request that returns success removes the target task
\* itself, with or without delete_series and whether the target is completed
\* or pending: after the call no task with the target id exists.
C28_DeleteRemovesTarget ==
    [][(resp'.op = "delete_task" /\ resp'.out = "ok") =>
          resp'.arg \notin DOMAIN tasks']_vars

\* ------------------------------------------ completion paths specification
\* The three operations that can set is_completed: the complete endpoint, a
\* PATCH with is_completed = true and the chat executor's COMPLETE action,
\* over tasks created with and without a recurrence.
CompleteInputs ==
    {[title |-> None, description |-> None, priority |-> None,
      is_completed |-> Some(TRUE), update_series |-> us] : us \in BOOLEAN}

PathPatch(u, t, upd) ==
    /\ UpdateTask(u, t, upd)
    /\ resp' = [op |-> "update_task", arg |-> t,
                out |-> IF IsSome(GetUserTask(u, t)) THEN "ok" ELSE "not_found"]

PathChat(u, t) ==
    /\ ExecuteComplete(u, t)
    /\ resp' = [op |-> "chat_complete", arg |-> t,
                out |-> IF ~IsSome(GetUserTask(u, t)) THEN "not_found"
                        ELSE IF tasks[t].is_completed THEN "already_completed"
                        ELSE "ok"]

AnyPathPatch == \E u \in Users, t \in TaskIds, upd \in CompleteInputs : PathPatch(u, t, upd)
AnyPathChat == \E u \in Users, t \in TaskIds : PathChat(u, t)

NextPaths ==
    \/ AnySeriesCreate
    \/ AnySeriesComplete
    \/ AnyPathPatch
    \/ AnyPathChat

SpecPaths == InitSeries /\ [][NextPaths]_vars

\* the tasks whose is_completed a step turns from false to true
NewlyCompleted == {t \in DOMAIN tasks \cap DOMAIN tasks' :
                      ~tasks[t].is_completed /\ tasks'[t].is_completed}

\* the task's rule is there and never ends
RuleNeverEnds(t) ==
    /\ IsSome(tasks[t].rule)
    /\ Val(tasks[t].rule) \in DOMAIN rules
    /\ rules[Val(tasks[t].rule)].end_type = "never"

\* C29: every operation that turns a recurring task's is_completed from false
\* to true runs the series advance: for a rule that never ends, after the
\* operation the series has a pending instance whose parent_task_id is the
\* completed task.
C29_EveryCompletionAdvances ==
    [][\A t \in NewlyCompleted :
          RuleNeverEnds(t) =>
              \E x \in DOMAIN tasks' :
                  /\ tasks'[x].parent = Some(t)
                  /\ tasks'[x].rule = tasks[t].rule
                  /\ ~tasks'[x].is_completed]_vars

\* the task holds three reminders and each of them is marked sent
FullOfSent(t) ==
    /\ Cardinality(RemindersOfTask(t)) = 3
    /\ \A r \in RemindersOfTask(t) : reminders[r].sent

\* C30: the limit of three counts sent and unsent reminders alike: a task with
\* three reminders, all marked sent, rejects every create_reminder and stores
\* nothing, and neither mark_as_sent nor cancel_task_reminders takes any of
\* its reminders away; only a delete makes room.
C30_LimitCountsSent ==
    /\ [][(resp'.op = "create_reminder" /\ resp'.arg \in DOMAIN tasks
             /\ FullOfSent(resp'.arg)) =>
            /\ resp'.out # "created"
            /\ reminders' = reminders]_vars
    /\ [][resp'.op \in {"mark_as_sent", "cancel_task_reminders"} =>
            \A t \in DOMAIN tasks :
                FullOfSent(t) =>
                    {r \in DOMAIN reminders' : reminders'[r].task = t}
                        = RemindersOfTask(t)]_vars

\* the owner asked for a fourth reminder on a task whose three are all sent
C30_Witness ==
    /\ resp.op = "create_reminder"
    /\ resp.out = "limit"
    /\ resp.arg \in DOMAIN tasks
    /\ FullOfSent(resp.arg)

====
